---- MODULE Spec2Model ----
(***************************************************************************)
(* A model of nbudget.py: the NBudgetController of a Notion budget table.  *)
(*                                                                         *)
(* Python strings are modelled as sequences of one-character strings, so   *)
(* that str.split, int(), date.isoformat() and ", ".join() are computed    *)
(* as the code computes them.  The literal pieces of an error message are  *)
(* kept as opaque TLA+ strings; a message is the sequence of its pieces.   *)
(***************************************************************************)
EXTENDS Integers, Sequences, FiniteSets, TLC

VARIABLES settings, raises, tags_cache, op, args, out, calls, cache_before, schema_fetch,
          settings_file

vars == <<settings, raises, tags_cache, op, args, out, calls, cache_before, schema_fetch, settings_file>>

(***************************************************************************)
(* Bounds of the model.                                                    *)
(***************************************************************************)
MaxFmtTokens == 4
MaxDateFields == 4
MaxTags == 2

(***************************************************************************)
(* Sequence helpers.                                                       *)
(***************************************************************************)
Range(s) == {s[i] : i \in 1..Len(s)}

SeqsUpTo(S, n) == UNION {[1..k -> S] : k \in 0..n}

NonEmptySeqsUpTo(S, n) == UNION {[1..k -> S] : k \in 1..n}

(* sep.join(list) for a list of strings *)
RECURSIVE Join(_, _)
Join(list, sep) ==
    IF list = <<>> THEN <<>>
    ELSE IF Len(list) = 1 THEN list[1]
    ELSE list[1] \o sep \o Join(Tail(list), sep)

(* str.split(sep) for a one-character sep: '' gives [''], 'a//b' gives    *)
(* ['a', '', 'b'].                                                         *)
RECURSIVE SplitFrom(_, _, _, _)
SplitFrom(s, sep, i, cur) ==
    IF i > Len(s) THEN <<cur>>
    ELSE IF s[i] = sep THEN <<cur>> \o SplitFrom(s, sep, i + 1, <<>>)
    ELSE SplitFrom(s, sep, i + 1, Append(cur, s[i]))

Split(s, sep) == SplitFrom(s, sep, 1, <<>>)

(* list.index(x): the zero-based index of the first occurrence of x, or   *)
(* -1 where Python raises ValueError.                                      *)
RECURSIVE IndexFrom(_, _, _)
IndexFrom(list, x, i) ==
    IF i > Len(list) THEN -1
    ELSE IF list[i] = x THEN i - 1
    ELSE IndexFrom(list, x, i + 1)

(* the index of the last occurrence instead of the first *)
IndexLast(list, x) ==
    IF \E i \in 1..Len(list) : list[i] = x
    THEN (CHOOSE i \in 1..Len(list) :
             list[i] = x /\ \A j \in (i + 1)..Len(list) : list[j] # x) - 1
    ELSE -1

Index(list, x) == IndexFrom(list, x, 1)

(***************************************************************************)
(* int(str).  The alphabet of the model has digits, a sign, '/', and       *)
(* letters; int() accepts an optional sign followed by one or more digits  *)
(* (white space and underscores are not in the alphabet).  Python integers *)
(* are unbounded: the value is kept as its sign and its digits without     *)
(* leading zeros, and turned into a number only where it fits a C int.     *)
(***************************************************************************)
Digits == <<"0", "1", "2", "3", "4", "5", "6", "7", "8", "9">>

IsDigit(c) == c \in Range(Digits)

DigitVal(c) == (CHOOSE i \in 1..10 : Digits[i] = c) - 1

RECURSIVE StripZeros(_)
StripZeros(ds) ==
    IF Len(ds) > 1 /\ ds[1] = "0" THEN StripZeros(Tail(ds)) ELSE ds

(* int(str, 0), which refuses a leading zero *)
ParseIntBase0(s) ==
    LET signed == Len(s) >= 1 /\ s[1] \in {"+", "-"}
        body == IF signed THEN Tail(s) ELSE s
    IN  IF /\ Len(body) >= 1
           /\ \A i \in 1..Len(body) : IsDigit(body[i])
           /\ (Len(body) > 1 => body[1] # "0")
        THEN [ok |-> TRUE,
              neg |-> signed /\ s[1] = "-" /\ body # <<"0">>,
              digits |-> body]
        ELSE [ok |-> FALSE, neg |-> FALSE, digits |-> <<>>]

ParseInt(s) ==
    LET signed == Len(s) >= 1 /\ s[1] \in {"+", "-"}
        body == IF signed THEN Tail(s) ELSE s
    IN  IF Len(body) >= 1 /\ \A i \in 1..Len(body) : IsDigit(body[i])
        THEN [ok |-> TRUE,
              neg |-> signed /\ s[1] = "-" /\ StripZeros(body) # <<"0">>,
              digits |-> StripZeros(body)]
        ELSE [ok |-> FALSE, neg |-> FALSE, digits |-> <<>>]

(* a <= b for two digit strings without leading zeros *)
RECURSIVE DigitsLeq(_, _)
DigitsLeq(a, b) ==
    IF Len(a) # Len(b) THEN Len(a) < Len(b)
    ELSE IF a = <<>> THEN TRUE
    ELSE IF a[1] # b[1] THEN DigitVal(a[1]) < DigitVal(b[1])
    ELSE DigitsLeq(Tail(a), Tail(b))

(* The "i" argument format of the C datetime constructor: a signed 32-bit  *)
(* int, -2147483648 .. 2147483647.                                         *)
FitsCInt(n) ==
    IF n.neg
    THEN DigitsLeq(n.digits, <<"2", "1", "4", "7", "4", "8", "3", "6", "4", "8">>)
    ELSE DigitsLeq(n.digits, <<"2", "1", "4", "7", "4", "8", "3", "6", "4", "7">>)

RECURSIVE DigitsVal(_, _)
DigitsVal(ds, acc) ==
    IF ds = <<>> THEN acc ELSE DigitsVal(Tail(ds), acc * 10 + DigitVal(ds[1]))

(* The number, for a value that fits a C int (the most negative C int is   *)
(* below every range the constructor accepts and is given as -2147483647). *)
IntVal(n) ==
    IF n.neg
    THEN IF n.digits = <<"2", "1", "4", "7", "4", "8", "3", "6", "4", "8">>
         THEN 0 - 2147483647
         ELSE 0 - DigitsVal(n.digits, 0)
    ELSE DigitsVal(n.digits, 0)

(***************************************************************************)
(* datetime.date(year, month, day) of CPython and date.isoformat().        *)
(***************************************************************************)
IsLeap(y) == y % 4 = 0 /\ (y % 100 # 0 \/ y % 400 = 0)

DaysInMonth(y, m) ==
    IF m = 2 THEN (IF IsLeap(y) THEN 29 ELSE 28)
    ELSE IF m \in {4, 6, 9, 11} THEN 30
    ELSE 31

ValidDate(y, m, d) ==
    /\ y \in 1..9999
    /\ m \in 1..12
    /\ d \in 1..DaysInMonth(y, m)

(* The constructor converts its three arguments to C ints first            *)
(* (OverflowError), then checks the ranges (ValueError).                   *)
date_ctor(ny, nm, nd) ==
    IF ~(FitsCInt(ny) /\ FitsCInt(nm) /\ FitsCInt(nd))
    THEN [err |-> "OverflowError", year |-> 0, month |-> 0, day |-> 0]
    ELSE IF ~ValidDate(IntVal(ny), IntVal(nm), IntVal(nd))
    THEN [err |-> "ValueError", year |-> 0, month |-> 0, day |-> 0]
    ELSE [err |-> "", year |-> IntVal(ny), month |-> IntVal(nm), day |-> IntVal(nd)]

RECURSIVE NumStr(_)
NumStr(n) ==
    IF n < 10 THEN <<Digits[n + 1]>>
    ELSE NumStr(n \div 10) \o <<Digits[(n % 10) + 1]>>

RECURSIVE ZeroPad(_, _)
ZeroPad(s, width) == IF Len(s) >= width THEN s ELSE ZeroPad(<<"0">> \o s, width)

(* "%04d-%02d-%02d" *)
isoformat(d) ==
    ZeroPad(NumStr(d.year), 4) \o <<"-">> \o ZeroPad(NumStr(d.month), 2)
        \o <<"-">> \o ZeroPad(NumStr(d.day), 2)

(***************************************************************************)
(* The outcome of a call: it returns ret, raises exc(msg) to the caller,   *)
(* prints the message and ends the process with sys.exit(1) ("exit"), or   *)
(* lets an exception the controller does not classify escape ("escape").   *)
(***************************************************************************)
None == "None"

NoDate == [year |-> 0, month |-> 0, day |-> 0]

Return(v) == [kind |-> "return", exc |-> "", msg |-> <<>>, ret |-> v]

Escape(exception) == [kind |-> "escape", exc |-> exception, msg |-> <<>>, ret |-> None]

(* the exception raised whatever self.raises is *)
wrap_error_raising(error_msg, exception) ==
    [kind |-> "raise", exc |-> exception, msg |-> error_msg, ret |-> None]

wrap_error(error_msg, exception) ==
    IF raises
    THEN [kind |-> "raise", exc |-> exception, msg |-> error_msg, ret |-> None]
    ELSE [kind |-> "exit", exc |-> exception, msg |-> error_msg, ret |-> None]

Failed(o) == o.kind # "return"

(***************************************************************************)
(* NBudgetController._format_date.  The tuple of line 346 is evaluated     *)
(* left to right: the Y subscript, then the M subscript, then the D        *)
(* subscript; the first index() or subscript that fails decides.           *)
(***************************************************************************)
Slash == "/"

(* an index taken modulo the length *)
SubscriptWrap(list, i) == [ok |-> TRUE, val |-> list[(i % Len(list)) + 1]]

(* list[i] for a zero-based i >= 0: ok is FALSE where Python raises        *)
(* IndexError.                                                             *)
Subscript(list, i) ==
    IF i < Len(list) THEN [ok |-> TRUE, val |-> list[i + 1]]
    ELSE [ok |-> FALSE, val |-> <<>>]

(* a date returned whatever the string *)
format_date_lenient(date, date_input_format) ==
    Return([year |-> 2021, month |-> 6, day |-> 15])

format_date(date, date_input_format) ==
    LET split_date_input_format == Split(date_input_format, Slash)
        split_date == Split(date, Slash)
        iY == Index(split_date_input_format, <<"Y">>)
        iM == Index(split_date_input_format, <<"M">>)
        iD == Index(split_date_input_format, <<"D">>)
    IN  IF iY = -1 THEN wrap_error(<<date_input_format>>, "InvalidDateFormat")
        ELSE IF ~Subscript(split_date, iY).ok THEN wrap_error(<<date>>, "InvalidDate")
        ELSE IF iM = -1 THEN wrap_error(<<date_input_format>>, "InvalidDateFormat")
        ELSE IF ~Subscript(split_date, iM).ok THEN wrap_error(<<date>>, "InvalidDate")
        ELSE IF iD = -1 THEN wrap_error(<<date_input_format>>, "InvalidDateFormat")
        ELSE IF ~Subscript(split_date, iD).ok THEN wrap_error(<<date>>, "InvalidDate")
        ELSE LET year == ParseInt(Subscript(split_date, iY).val)
                 month == ParseInt(Subscript(split_date, iM).val)
                 day == ParseInt(Subscript(split_date, iD).val)
             IN  IF ~(year.ok /\ month.ok /\ day.ok)
                 THEN wrap_error(<<date>>, "InvalidDateRange")
                 ELSE LET made == date_ctor(year, month, day)
                      IN  IF made.err = "OverflowError" THEN Escape("OverflowError")
                          ELSE IF made.err = "ValueError"
                          THEN wrap_error(<<date>>, "InvalidDateRange")
                          ELSE Return([year |-> made.year, month |-> made.month,
                                       day |-> made.day])

(***************************************************************************)
(* Settings: the dictionary of get_default_settings, and two dictionaries  *)
(* with other column names and another date order.                         *)
(***************************************************************************)
get_default_settings(database_id, api_key) ==
    [database_id |-> database_id,
     api_key |-> api_key,
     date_input_format |-> <<"D", "/", "M", "/", "Y">>,
     tag_separator |-> <<"\n">>,
     type_name |-> <<"T", "y", "p", "e">>,
     date_name |-> <<"D", "a", "t", "e">>,
     concept_name |-> <<"C", "o", "n", "c", "e", "p", "t">>,
     amount_name |-> <<"A", "m", "o", "u", "n", "t">>,
     tags_name |-> <<"T", "a", "g", "s">>]

default_settings == get_default_settings(<<"M", "Y", "_", "D", "B", "_", "I", "D">>, <<"K", "E", "Y">>)

renamed_settings ==
    [default_settings EXCEPT !.date_input_format = <<"Y", "/", "M", "/", "D">>,
                             !.type_name = <<"N", "e", "w", " ", "T", "y", "p", "e">>,
                             !.date_name = <<"N", "e", "w", " ", "D", "a", "t", "e">>,
                             !.concept_name = <<"N", "e", "w", " ", "C", "o", "n", "c", "e", "p", "t">>,
                             !.amount_name = <<"N", "e", "w", " ", "A", "m", "o", "u", "n", "t">>,
                             !.tags_name = <<"N", "e", "w", " ", "T", "a", "g", "s">>]

kind_named_settings ==
    [default_settings EXCEPT !.date_input_format = <<"M", "/", "D", "/", "Y">>,
                             !.tags_name = <<"m", "u", "l", "t", "i", "_", "s", "e", "l", "e", "c", "t">>]

SettingsSet == {default_settings, renamed_settings, kind_named_settings}

(* _SETTINGS_KEY_VALIDATION *)
SETTINGS_KEY_VALIDATION ==
    <<"database_id", "api_key", "date_input_format", "tag_separator", "type_name",
      "date_name", "concept_name", "amount_name", "tags_name">>

(* a settings dictionary without one key *)
Without(dict, key) == [k \in (DOMAIN dict) \ {key} |-> dict[k]]

IncompleteSettings ==
    {Without(default_settings, key) : key \in Range(SETTINGS_KEY_VALIDATION)}

(* self.settings[key] raises KeyError *)
Missing(key) == key \notin DOMAIN settings


(***************************************************************************)
(* The remote.  A reply to a request is a success with a JSON body, an     *)
(* HTTPError whose body is the API's error JSON ("api": an object with     *)
(* code and message), a JSON object lacking one of them ("partial") or no  *)
(* JSON at all ("text"), or a URLError (the remote was not reached).       *)
(***************************************************************************)
NoJson == [has_properties |-> FALSE, properties |-> <<>>]

OkReply(json) == [status |-> "ok", code |-> 200, body |-> "json", json |-> json]

HttpFail(code, body) == [status |-> "HTTPError", code |-> code, body |-> body, json |-> NoJson]

UrlFail == [status |-> "URLError", code |-> 0, body |-> "", json |-> NoJson]

NoReply == [status |-> "none", code |-> 0, body |-> "", json |-> NoJson]

FailReplies ==
    {HttpFail(400, "api"), HttpFail(403, "api"), HttpFail(400, "partial"),
     HttpFail(403, "text"), HttpFail(503, "text"), UrlFail}

(* A column of the schema: its name, the keys of its definition in the     *)
(* order the remote lists them, and, under the key multi_select, its       *)
(* options, each an object with a name.                                    *)
Column(name, keys, names) ==
    [name |-> name, keys |-> keys,
     options |-> [i \in 1..Len(names) |-> [name |-> names[i], color |-> "default"]]]

Tag1 == <<"T", "a", "g", "1">>

Tag2 == <<"T", "a", "g", "2">>

Tag3 == <<"T", "a", "g", "3">>

MultiSelect == <<"m", "u", "l", "t", "i", "_", "s", "e", "l", "e", "c", "t">>

Select == <<"s", "e", "l", "e", "c", "t">>

Number == <<"n", "u", "m", "b", "e", "r">>

Schema(columns) == [has_properties |-> TRUE, properties |-> columns]

SchemaBodies ==
    {Schema(<<Column(<<"T", "a", "g", "s">>, <<MultiSelect>>, <<Tag1, Tag2>>)>>),
     Schema(<<Column(<<"T", "a", "g", "s">>, <<MultiSelect>>, <<Tag2, Tag1>>)>>),
     Schema(<<Column(<<"T", "a", "g", "s">>, <<MultiSelect>>, <<>>)>>),
     Schema(<<Column(<<"A", "m", "o", "u", "n", "t">>, <<Number>>, <<>>),
              Column(<<"N", "e", "w", " ", "T", "a", "g", "s">>, <<MultiSelect>>, <<Tag1>>),
              Column(<<"O", "t", "h", "e", "r">>, <<MultiSelect>>, <<Tag3>>)>>),
     Schema(<<Column(<<"O", "t", "h", "e", "r">>, <<MultiSelect>>, <<Tag1>>),
              Column(<<"A", "n", "o", "t", "h", "e", "r">>, <<MultiSelect>>, <<Tag2>>)>>),
     Schema(<<Column(<<"T", "y", "p", "e">>, <<Select>>, <<>>)>>),
     Schema(<<Column(<<"T", "a", "g", "s">>, <<Select>>, <<>>),
              Column(<<"N", "e", "w", " ", "T", "a", "g", "s">>, <<Number>>, <<>>)>>),
     Schema(<<Column(MultiSelect, <<MultiSelect>>, <<Tag2>>)>>),
     Schema(<<Column(MultiSelect, <<Select>>, <<>>),
              Column(<<"O", "t", "h", "e", "r">>, <<MultiSelect>>, <<Tag1>>)>>),
     Schema(<<>>),
     NoJson}

SchemaReplies == {OkReply(b) : b \in SchemaBodies} \cup FailReplies

InsertReplies == {OkReply(NoJson), HttpFail(400, "api"), HttpFail(503, "text")}

(***************************************************************************)
(* NBudgetController._api_call: the outcome of one request, given the      *)
(* remote's reply.  Only JSONDecodeError is caught around the reading of   *)
(* the error body: the KeyError of a body lacking code or message escapes, *)
(* and so does a URLError, which is no HTTPError.                          *)
(***************************************************************************)
ApiCode == "validation_error"

ApiMessage == "body failed validation"

(* the HTTP status decides before the body is read *)
api_call_status_first(reply) ==
    IF reply.status = "ok" THEN Return(reply.json)
    ELSE IF reply.status = "URLError" THEN Escape("URLError")
    ELSE IF reply.code = 403
    THEN wrap_error(<<reply.code, " -> Check your UA if you have modified the script">>,
                    "HTTPError")
    ELSE IF reply.body = "api"
    THEN wrap_error(<<ApiCode, " -> ", ApiMessage>>, "APIError")
    ELSE IF reply.body = "partial" THEN Escape("KeyError")
    ELSE wrap_error(<<reply.code>>, "HTTPError")

api_call(reply) ==
    IF reply.status = "ok" THEN Return(reply.json)
    ELSE IF reply.status = "URLError" THEN Escape("URLError")
    ELSE IF reply.body = "api"
    THEN wrap_error(<<ApiCode, " -> ", ApiMessage>>, "APIError")
    ELSE IF reply.body = "partial" THEN Escape("KeyError")
    ELSE IF reply.code = 403
    THEN wrap_error(<<reply.code, " -> Check your UA if you have modified the script">>,
                    "HTTPError")
    ELSE wrap_error(<<reply.code>>, "HTTPError")

(***************************************************************************)
(* NBudgetController.get_tags, given the reply to its schema request: the  *)
(* outcome and the tags_cache it leaves.                                   *)
(***************************************************************************)
HasColumn(properties, name) == \E i \in 1..Len(properties) : properties[i].name = name

GetColumn(properties, name) ==
    properties[CHOOSE i \in 1..Len(properties) : properties[i].name = name]

(* [key for key in properties if 'multi_select' in properties[key]] *)
IsMultiSelect(column) == MultiSelect \in Range(column.keys)

NamesOf(columns) == [i \in 1..Len(columns) |-> columns[i].name]

CommaSpace == <<",", " ">>

(* [o['name'] for o in ...['options']] *)
OptionNamesReversed(column) ==
    [i \in 1..Len(column.options) |->
        column.options[Len(column.options) + 1 - i].name]

OptionNames(column) == [i \in 1..Len(column.options) |-> column.options[i].name]

(* every column instead of the multi_select ones *)
AllColumns(properties) == NamesOf(properties)

multi_selects(properties) == NamesOf(SelectSeq(properties, IsMultiSelect))

(* the cache emptied by a get_tags that fails *)
UnfilledEmptied(o) == [out |-> o, tags_cache |-> <<>>]

(* get_tags ending with outcome o before line 208: the cache is as it was *)
Unfilled(o) == [out |-> o, tags_cache |-> tags_cache]

get_tags(reply) ==
    LET called == api_call(reply)
        response == called.ret
        tags_column_name == settings.tags_name
        keep(o) == Unfilled(o)
    IN  IF Failed(called) THEN keep(called)
        ELSE IF Missing("tags_name") THEN keep(Escape("KeyError"))
        ELSE IF ~response.has_properties
        THEN keep(wrap_error(<<"Did not understand API response: ", response>>,
                             "APIParsingError"))
        ELSE LET properties == response.properties
                 present == HasColumn(properties, tags_column_name)
                 column == GetColumn(properties, tags_column_name)
             IN  IF present /\ IsMultiSelect(column)
                 THEN [out |-> Return(OptionNames(column)), tags_cache |-> OptionNames(column)]
                 ELSE LET key_error == IF present THEN MultiSelect ELSE tags_column_name
                      IN  IF key_error = tags_column_name
                          THEN IF Len(multi_selects(properties)) >= 1
                               THEN keep(wrap_error(
                                        <<"Column with name \"", tags_column_name,
                                          "\" does not exist in the Notion database. Could it be one of these: ",
                                          Join(multi_selects(properties), CommaSpace),
                                          "? If one is then change \"tag_name\" in the settings file for it.">>,
                                        "APIParsingError"))
                               ELSE keep(wrap_error(
                                        <<"No multi_select type column found in Notion database.">>,
                                        "APIParsingError"))
                          ELSE keep(wrap_error(
                                   <<"Type of the ", tags_column_name, " column is: \"",
                                     column.keys[1], "\". Must be \"multi_select\"">>,
                                   "APIParsingError"))

(***************************************************************************)
(* NBudgetController.insert_record.  A dict is a sequence of entries in    *)
(* insertion order; assigning to a key it holds replaces the value.        *)
(***************************************************************************)
Entry(key, kind, value) == [key |-> key, kind |-> kind, value |-> value]

HasKey(dict, key) == \E i \in 1..Len(dict) : dict[i].key = key

DictSet(dict, entry) ==
    IF HasKey(dict, entry.key)
    THEN [i \in 1..Len(dict) |-> IF dict[i].key = entry.key THEN entry ELSE dict[i]]
    ELSE Append(dict, entry)

RECURSIVE DictOf(_)
DictOf(entries) ==
    IF entries = <<>> THEN <<>>
    ELSE DictSet(DictOf(SubSeq(entries, 1, Len(entries) - 1)), entries[Len(entries)])

NoData == [database_id |-> <<>>, properties |-> <<>>]

(* a request the controller issued, and the reply it got *)
Request(url, has_data, data, reply) ==
    [url |-> url, has_data |-> has_data, data |-> data, reply |-> reply]

(* the schema request sent again after its reply *)
SchemaRequestsRetried(reply) ==
    <<Request("database_query_url", FALSE, NoData, reply),
      Request("database_query_url", FALSE, NoData, reply)>>

(* the requests of one get_tags: the one of line 197 *)
SchemaRequests(reply) == <<Request("database_query_url", FALSE, NoData, reply)>>

(* a schema fetch whatever the cache holds *)
AlwaysFetch(cache) == TRUE

(* 'self.tags_cache if self.tags_cache else self.get_tags()': an empty     *)
(* list is false                                                           *)
NeedsFetch(cache) == cache = <<>>

(* the last such tag instead of the first *)
LastInvalidTag(tags, valid_options) ==
    tags[CHOOSE i \in 1..Len(tags) :
            /\ tags[i] \notin Range(valid_options)
            /\ \A j \in (i + 1)..Len(tags) : tags[j] \in Range(valid_options)]

(* the first tag of tags, in order, that is not among valid_options *)
FirstInvalidTag(tags, valid_options) ==
    tags[CHOOSE i \in 1..Len(tags) :
            /\ tags[i] \notin Range(valid_options)
            /\ \A j \in 1..(i - 1) : tags[j] \in Range(valid_options)]

(* record_type and amount of lines 299-300 *)
RecordType(income) == IF ~income THEN "EXPENSE" ELSE "INCOME"

(* the amount made negative instead of negated *)
SignedAmountAbs(amount, income) ==
    IF ~income THEN (IF amount > 0 THEN 0 - amount ELSE amount) ELSE amount

SignedAmount(amount, income) == IF ~income THEN 0 - amount ELSE amount

(***************************************************************************)
(* str(data).replace("'", '"').encode() of line 324.  The strings are over *)
(* printable ASCII, which repr leaves as they are but for the quote it     *)
(* chose and the backslash, and which UTF-8 encodes one byte a character.  *)
(***************************************************************************)
Apostrophe == "'"

Quote == "\""

Backslash == "\\"

(* repr of a str: single quotes, unless the string holds a single quote    *)
(* and no double quote; the quote chosen and the backslash are escaped     *)
repr(s) ==
    LET quote == IF Apostrophe \in Range(s) /\ Quote \notin Range(s)
                 THEN Quote ELSE Apostrophe
        escaped(c) == IF c = quote \/ c = Backslash THEN <<Backslash, c>> ELSE <<c>>
    IN  <<quote>> \o Join([i \in 1..Len(s) |-> escaped(s[i])], <<>>) \o <<quote>>

(* repr of a float of integral value *)
float_repr(n) ==
    (IF n < 0 THEN <<"-">> ELSE <<>>) \o NumStr(IF n < 0 THEN 0 - n ELSE n) \o <<".", "0">>

(* repr of a dict and of a list, given the text of their items *)
dict_repr(items) == <<"{">> \o Join(items, CommaSpace) \o <<"}">>

list_repr(items) == <<"[">> \o Join(items, CommaSpace) \o <<"]">>

item_repr(key, value_text) == repr(key) \o <<":", " ">> \o value_text

RecordTypeName(record_type) ==
    IF record_type = "EXPENSE" THEN <<"E", "X", "P", "E", "N", "S", "E">> ELSE <<"I", "N", "C", "O", "M", "E">>

(* the text of the value of one column of the payload *)
column_repr(entry) ==
    CASE entry.kind = "select" ->
            dict_repr(<<item_repr(<<"s", "e", "l", "e", "c", "t">>,
                dict_repr(<<item_repr(<<"n", "a", "m", "e">>, repr(RecordTypeName(entry.value)))>>))>>)
      [] entry.kind = "date" ->
            dict_repr(<<item_repr(<<"d", "a", "t", "e">>,
                dict_repr(<<item_repr(<<"s", "t", "a", "r", "t">>, repr(entry.value))>>))>>)
      [] entry.kind = "title" ->
            dict_repr(<<item_repr(<<"t", "i", "t", "l", "e">>,
                list_repr(<<dict_repr(<<item_repr(<<"t", "e", "x", "t">>,
                    dict_repr(<<item_repr(<<"c", "o", "n", "t", "e", "n", "t">>, repr(entry.value))>>))>>)>>))>>)
      [] entry.kind = "number" ->
            dict_repr(<<item_repr(<<"n", "u", "m", "b", "e", "r">>, float_repr(entry.value))>>)
      [] entry.kind = "multi_select" ->
            dict_repr(<<item_repr(<<"m", "u", "l", "t", "i", "_", "s", "e", "l", "e", "c", "t">>,
                list_repr([i \in 1..Len(entry.value) |->
                    dict_repr(<<item_repr(<<"n", "a", "m", "e">>, repr(entry.value[i].name))>>)]))>>)

(* str(data) *)
str(data) ==
    dict_repr(<<item_repr(<<"p", "a", "r", "e", "n", "t">>,
                    dict_repr(<<item_repr(<<"d", "a", "t", "a", "b", "a", "s", "e", "_", "i", "d">>, repr(data.database_id))>>)),
                item_repr(<<"p", "r", "o", "p", "e", "r", "t", "i", "e", "s">>,
                    dict_repr([i \in 1..Len(data.properties) |->
                        item_repr(data.properties[i].key,
                                  column_repr(data.properties[i]))]))>>)

(* str.replace(old, new) for one-character old and new *)
replace(text, old, new) == [i \in 1..Len(text) |-> IF text[i] = old THEN new ELSE text[i]]

encoded_data(data) == replace(str(data), Apostrophe, Quote)

(* the insertion request: the payload built and the bytes handed over *)
Insertion(data, reply) ==
    [url |-> "page_insertion_query", has_data |-> TRUE, data |-> data,
     encoded |-> encoded_data(data), reply |-> reply]

(* the tags put in another order *)
TagsListSorted(tags) ==
    IF Len(tags) = 2 /\ tags[1] # tags[2] /\ tags[2] = Tag1
    THEN <<[name |-> tags[2]], [name |-> tags[1]]>>
    ELSE [i \in 1..Len(tags) |-> [name |-> tags[i]]]

(* [{"name": t} for t in tags] *)
TagsList(tags) == [i \in 1..Len(tags) |-> [name |-> tags[i]]]

insert_record(concept, amount, tags_given, tags, income, date, today, schema_reply, insert_reply) ==
    LET date_result ==
            IF date = <<>> THEN Return(today)
            ELSE IF Missing("date_input_format") THEN Escape("KeyError")
            ELSE format_date(date, settings.date_input_format)
        keep(o, requests) == [out |-> o, tags_cache |-> tags_cache, calls |-> requests]
    IN  IF Failed(date_result) THEN keep(date_result, <<>>)
        ELSE IF \E key \in {"database_id", "type_name", "date_name", "concept_name",
                             "amount_name"} : Missing(key)
        THEN keep(Escape("KeyError"), <<>>)
        ELSE
        LET iso_date == isoformat(date_result.ret)
            first_build ==
                DictOf(<<Entry(settings.type_name, "select", RecordType(income)),
                         Entry(settings.date_name, "date", iso_date),
                         Entry(settings.concept_name, "title", concept),
                         Entry(settings.amount_name, "number",
                               SignedAmount(amount, income))>>)
            has_tags == tags_given /\ tags # <<>>
            fetches == has_tags /\ NeedsFetch(tags_cache)
            fetched == get_tags(schema_reply)
            fetch_calls == IF fetches THEN SchemaRequests(schema_reply) ELSE <<>>
        IN  IF fetches /\ Failed(fetched.out)
            THEN [out |-> fetched.out, tags_cache |-> fetched.tags_cache,
                  calls |-> fetch_calls]
            ELSE
            LET valid_options == IF fetches THEN fetched.out.ret ELSE tags_cache
                cache == IF fetches THEN fetched.tags_cache ELSE tags_cache
            IN  IF has_tags /\ \E i \in 1..Len(tags) : tags[i] \notin Range(valid_options)
                THEN [out |-> wrap_error(
                                 <<"Tag does not exist in Notion db: \"",
                                   FirstInvalidTag(tags, valid_options),
                                   "\", use one of these:",
                                   Join(valid_options, CommaSpace)>>,
                                 "InvalidTag"),
                      tags_cache |-> cache,
                      calls |-> fetch_calls]
                ELSE IF has_tags /\ Missing("tags_name")
                THEN [out |-> Escape("KeyError"), tags_cache |-> cache,
                      calls |-> fetch_calls]
                ELSE
                LET properties ==
                        IF has_tags
                        THEN DictSet(first_build,
                                     Entry(settings.tags_name, "multi_select",
                                           TagsList(tags)))
                        ELSE first_build
                    data == [database_id |-> settings.database_id,
                             properties |-> properties]
                    sent == api_call(insert_reply)
                IN  [out |-> IF Failed(sent) THEN sent ELSE Return(None),
                     tags_cache |-> cache,
                     calls |-> Append(fetch_calls, Insertion(data, insert_reply))]

(* whether the call issues the schema request, and whether it reaches the  *)
(* insertion request, given the reply to the schema request                *)
IssuesFetch(tags_given, tags, date) ==
    /\ tags_given /\ tags # <<>> /\ NeedsFetch(tags_cache)
    /\ \A key \in {"database_id", "type_name", "date_name", "concept_name",
                    "amount_name"} : ~Missing(key)
    /\ date # <<>> => ~Missing("date_input_format")
    /\ (date # <<>> => ~Failed(format_date(date, settings.date_input_format)))

IssuesInsertion(tags_given, tags, date, schema_reply) ==
    LET dry == insert_record(<<>>, 0, tags_given, tags, FALSE, date, NoDate,
                             schema_reply, OkReply(NoJson))
    IN  dry.calls # <<>> /\ dry.calls[Len(dry.calls)].url = "page_insertion_query"

(***************************************************************************)
(* NBudgetController.get_count.  A page of the record query is a JSON      *)
(* object with results and next_cursor.  A row is the properties of one    *)
(* record: cells, each with a column name and, when it has the key         *)
(* number, its value: a number, null or a text.                            *)
(***************************************************************************)
PageSize == 100

Num(n) == [type |-> "int", val |-> n]

Null == [type |-> "null", val |-> 0]

Text == [type |-> "str", val |-> 0]

Cell(name, has_number, number) ==
    [name |-> name, has_number |-> has_number, number |-> number]

Row(cells) == [has_properties |-> TRUE, properties |-> cells]

NoProperties == [has_properties |-> FALSE, properties |-> <<>>]

Page(results, next_cursor) == [results |-> results, next_cursor |-> next_cursor]

(* the truth value of a next_cursor: None and '' are false *)
Truthy(cursor) == cursor \notin {None, ""}

(* r['properties'][amount_name]['number'] raises KeyError *)
RaisesKeyError(r) ==
    \/ ~r.has_properties
    \/ Missing("amount_name")
    \/ ~\E i \in 1..Len(r.properties) : r.properties[i].name = settings.amount_name
    \/ \E i \in 1..Len(r.properties) :
          r.properties[i].name = settings.amount_name /\ ~r.properties[i].has_number

AmountOf(r) ==
    r.properties[CHOOSE i \in 1..Len(r.properties) :
                     r.properties[i].name = settings.amount_name].number

(* the for loop of lines 241-245 and 252-256 from row i on: total_sum      *)
(* after it, or the TypeError of adding something that is no number        *)
RECURSIVE sum_results(_, _, _)
sum_results(results, i, total_sum) ==
    IF i > Len(results) THEN [ok |-> TRUE, total_sum |-> total_sum]
    ELSE IF RaisesKeyError(results[i]) THEN sum_results(results, i + 1, total_sum)
    ELSE IF AmountOf(results[i]).type # "int" THEN [ok |-> FALSE, total_sum |-> total_sum]
    ELSE sum_results(results, i + 1, total_sum + AmountOf(results[i]).val)

CountData(has_start_cursor, start_cursor) ==
    [page_size |-> PageSize, has_start_cursor |-> has_start_cursor,
     start_cursor |-> start_cursor]

(* the cursor of the first page sent again instead of the last one's *)
NextCursorFirst(requests, response) ==
    IF requests = <<>> THEN response.next_cursor
    ELSE requests[1].reply.json.next_cursor

NextCursor(requests, response) == response.next_cursor

(* the request of page i and what follows it, replies[i] being the reply   *)
(* to the i-th request                                                     *)
RECURSIVE count_pages(_, _, _, _)
count_pages(replies, i, total_sum, requests) ==
    LET data == IF i = 1 THEN CountData(FALSE, None)
                ELSE CountData(TRUE, NextCursor(SubSeq(requests, 1, i - 2),
                                                requests[i - 1].reply.json))
        issued == Append(requests,
                         Request("database_contents_query", TRUE, data, replies[i]))
        called == api_call(replies[i])
    IN  IF Failed(called) THEN [out |-> called, calls |-> issued]
        ELSE LET summed == sum_results(called.ret.results, 1, total_sum)
             IN  IF ~summed.ok THEN [out |-> Escape("TypeError"), calls |-> issued]
                 ELSE IF Truthy(called.ret.next_cursor)
                 THEN count_pages(replies, i + 1, summed.total_sum, issued)
                 ELSE [out |-> Return(summed.total_sum), calls |-> issued]

get_count(replies) == count_pages(replies, 1, 0, <<>>)

(* the replies are those of the requests get_count issues: it asks for     *)
(* another page after every reply but the last                             *)
Consumed(replies) ==
    /\ replies # <<>>
    /\ \A i \in 1..Len(replies) :
          LET more == /\ replies[i].status = "ok"
                      /\ sum_results(replies[i].json.results, 1, 0).ok
                      /\ Truthy(replies[i].json.next_cursor)
          IN  more <=> i < Len(replies)

(***************************************************************************)
(* _read_settings, _choose_option and _settings_wizard.  The settings file *)
(* is missing, holds text that is no JSON, or holds a JSON dictionary.     *)
(* answers are the strings input() returns to the prompts of               *)
(* _choose_option, in order.                                               *)
(***************************************************************************)
NoFile == [status |-> "missing", json |-> <<>>]

Malformed == [status |-> "malformed", json |-> <<>>]

FileOf(dict) == [status |-> "json", json |-> dict]

LowerCase ==
    <<"a", "b", "c", "d", "e", "f", "g", "h", "i", "j", "k", "l", "m",
      "n", "o", "p", "q", "r", "s", "t", "u", "v", "w", "x", "y", "z">>

UpperCase ==
    <<"A", "B", "C", "D", "E", "F", "G", "H", "I", "J", "K", "L", "M",
      "N", "O", "P", "Q", "R", "S", "T", "U", "V", "W", "X", "Y", "Z">>

(* str.upper() *)
upper(s) ==
    [i \in 1..Len(s) |->
        IF \E k \in 1..Len(LowerCase) : LowerCase[k] = s[i]
        THEN UpperCase[CHOOSE k \in 1..Len(LowerCase) : LowerCase[k] = s[i]]
        ELSE s[i]]

(* the response is accepted: response.upper() in valid_options *)
Accepted(response, valid_options) ==
    \E i \in 1..Len(valid_options) : upper(valid_options[i]) = upper(response)

(* _choose_option: the first accepted answer, as it was typed *)
RECURSIVE choose_option(_, _)
choose_option(answers, valid_options) ==
    IF Accepted(Head(answers), valid_options) THEN Head(answers)
    ELSE choose_option(Tail(answers), valid_options)

(* the number of prompts _choose_option makes *)
RECURSIVE Prompts(_, _)
Prompts(answers, valid_options) ==
    IF Accepted(Head(answers), valid_options) THEN 1
    ELSE 1 + Prompts(Tail(answers), valid_options)

YesNo == <<<<"Y">>, <<"N">>>>

(* _settings_wizard with the two strings typed: the settings it returns,   *)
(* which it also writes to the file                                        *)
settings_wizard(database_id, api_key) == get_default_settings(database_id, api_key)

(* answer == 'Y' *)
IsYes(answer) == answer = <<"Y">>

FirstMissingKey(dict) ==
    SETTINGS_KEY_VALIDATION[
        CHOOSE i \in 1..Len(SETTINGS_KEY_VALIDATION) :
            /\ SETTINGS_KEY_VALIDATION[i] \notin DOMAIN dict
            /\ \A j \in 1..(i - 1) : SETTINGS_KEY_VALIDATION[j] \in DOMAIN dict]

(* the process ends through _err: message printed, sys.exit(1) *)
Err(error_msg) == [kind |-> "exit", exc |-> "", msg |-> error_msg, ret |-> None]

(* _read_settings: its outcome, the file it leaves and the number of       *)
(* prompts of _choose_option                                               *)
read_settings(file, answers, database_id, api_key) ==
    IF file.status = "missing"
    THEN LET answer == choose_option(answers, YesNo)
             prompts == Prompts(answers, YesNo)
         IN  IF IsYes(answer)
             THEN [out |-> Return(settings_wizard(database_id, api_key)),
                   settings_file |-> FileOf(settings_wizard(database_id, api_key)),
                   prompts |-> prompts]
             ELSE [out |-> Err(<<"No ", "settings.json", " file.">>),
                   settings_file |-> file, prompts |-> prompts]
    ELSE IF file.status = "malformed"
    THEN [out |-> Err(<<"settings.json is malformed: ">>), settings_file |-> file,
          prompts |-> 0]
    ELSE IF \E i \in 1..Len(SETTINGS_KEY_VALIDATION) :
                SETTINGS_KEY_VALIDATION[i] \notin DOMAIN file.json
    THEN [out |-> Err(<<"settings.json file is missing key: \"",
                        FirstMissingKey(file.json), "\"">>),
          settings_file |-> file, prompts |-> 0]
    ELSE [out |-> Return(file.json), settings_file |-> file, prompts |-> 0]

(***************************************************************************)
(* The arguments of the last call (empty, zero or FALSE where the call has *)
(* no such argument).  tags_given is FALSE for tags=None.  iso_of is the   *)
(* date whose isoformat() the call was given, NoDate when it was given     *)
(* another string.  answers are the strings typed at the prompts of        *)
(* _read_settings, prompts the number of prompts it made.                  *)
(***************************************************************************)
NoArgs ==
    [concept |-> <<>>, amount |-> 0, tags_given |-> FALSE, tags |-> <<>>,
     income |-> FALSE, date |-> <<>>, date_input_format |-> <<>>, iso_of |-> NoDate,
     answers |-> <<>>, prompts |-> 0]

(***************************************************************************)
(* schema_fetch records the history of the cache: no schema fetch has      *)
(* succeeded since construction ("none"), none has since the last          *)
(* clear_tags_cache ("cleared"), or the option list of the last schema     *)
(* fetch that succeeded ("done").                                          *)
(***************************************************************************)
NoFetch == [status |-> "none", options |-> <<>>]

Cleared == [status |-> "cleared", options |-> <<>>]

Done(options) == [status |-> "done", options |-> options]

(* NBudgetController.__init__: it reads settings['database_id'] (line 143) *)
(* and settings['api_key'] (line 147), and no other key                    *)
init(given) ==
    IF "database_id" \in DOMAIN given /\ "api_key" \in DOMAIN given
    THEN Return(None)
    ELSE Escape("KeyError")

InitWith(settings_given) ==
    /\ settings \in settings_given
    /\ raises \in BOOLEAN
    /\ tags_cache = <<>>
    /\ op = "__init__"
    /\ args = NoArgs
    /\ out = init(settings)
    /\ calls = <<>>
    /\ cache_before = <<>>
    /\ schema_fetch = NoFetch
    /\ settings_file = NoFile

Init == InitWith(SettingsSet)

(* After sys.exit(1) the process is gone, and a constructor that failed    *)
(* made no controller.                                                     *)
Alive == out.kind # "exit" /\ ~(op = "__init__" /\ Failed(out))

(***************************************************************************)
(* The operations of a controller.  The remote's replies are chosen only   *)
(* for the requests the call issues.                                       *)
(***************************************************************************)
GetTagsFrom(schema_replies) ==
    /\ Alive
    /\ \E reply \in schema_replies :
          LET got == get_tags(reply)
          IN  /\ out' = got.out
              /\ tags_cache' = got.tags_cache
              /\ calls' = SchemaRequests(reply)
              /\ schema_fetch' = IF Failed(got.out) THEN schema_fetch
                                 ELSE Done(got.out.ret)
    /\ op' = "get_tags"
    /\ args' = NoArgs
    /\ cache_before' = tags_cache
    /\ UNCHANGED <<settings, raises, settings_file>>

GetTags == GetTagsFrom(SchemaReplies)

(* the cache left as it is *)
clear_tags_cache_kept == tags_cache

(* NBudgetController.clear_tags_cache: the tags_cache it leaves *)
clear_tags_cache == <<>>

ClearTagsCache ==
    /\ Alive
    /\ tags_cache' = clear_tags_cache
    /\ schema_fetch' = Cleared
    /\ op' = "clear_tags_cache"
    /\ args' = NoArgs
    /\ out' = Return(None)
    /\ calls' = <<>>
    /\ cache_before' = tags_cache
    /\ UNCHANGED <<settings, raises, settings_file>>

(***************************************************************************)
(* get_count on a controller.  The remote's pages: rows with the amount    *)
(* column holding a number, null or a text, lacking the key number,        *)
(* lacking the column, or lacking properties; a next_cursor that is None,  *)
(* empty or a cursor.                                                      *)
(***************************************************************************)
MaxPages == 3

MaxRows == 2

OtherName == <<"O", "t", "h", "e", "r">>

Cursors == {"c1", "c2"}

NoCursors == {None, ""}

(* the name of the table's amount column: the configured one, the default *)
(* one when the settings name none                                         *)
AmountColumn ==
    IF Missing("amount_name") THEN default_settings.amount_name
    ELSE settings.amount_name

Amount5 == Row(<<Cell(AmountColumn, TRUE, Num(5))>>)

AmountMinus3 == Row(<<Cell(OtherName, TRUE, Num(9)), Cell(AmountColumn, TRUE, Num(-3))>>)

AmountNull == Row(<<Cell(AmountColumn, TRUE, Null)>>)

AmountText == Row(<<Cell(AmountColumn, TRUE, Text)>>)

AmountNoNumber == Row(<<Cell(AmountColumn, FALSE, Null)>>)

NoAmount == Row(<<Cell(OtherName, TRUE, Num(9))>>)

RowShapes ==
    {Amount5, AmountMinus3, AmountNull, AmountText, AmountNoNumber, NoAmount,
     NoProperties}

(* pages of few kinds of rows, for calls of up to MaxPages requests *)
ShapeReplies ==
    {OkReply(Page(rows, c)) :
        rows \in {<<>>, <<Amount5>>, <<AmountMinus3, NoAmount>>},
        c \in Cursors \cup NoCursors}
    \cup FailReplies

(* a page of up to MaxRows rows of every kind, alone or before a last page *)
ValueReplies ==
    {OkReply(Page(rows, c)) : rows \in SeqsUpTo(RowShapes, MaxRows), c \in {None, "c1"}}

LastPage == OkReply(Page(<<Amount5>>, None))

RichCountCases ==
    {q \in NonEmptySeqsUpTo(ShapeReplies, MaxPages) : Consumed(q)}
    \cup {q \in {<<p>> : p \in ValueReplies} \cup {<<p, LastPage>> : p \in ValueReplies} :
             Consumed(q)}

LeanCountCases ==
    {<<OkReply(Page(<<Amount5, NoAmount>>, None))>>,
     <<OkReply(Page(<<Amount5>>, "c1")), OkReply(Page(<<AmountNull>>, None))>>,
     <<HttpFail(503, "text")>>}

GetCountWith(cases) ==
    /\ Alive
    /\ \E replies \in cases :
          LET got == get_count(replies)
          IN  /\ out' = got.out
              /\ calls' = got.calls
    /\ op' = "get_count"
    /\ args' = NoArgs
    /\ cache_before' = tags_cache
    /\ UNCHANGED <<settings, raises, tags_cache, schema_fetch, settings_file>>

GetCount == GetCountWith(LeanCountCases)

Today == [year |-> 2021, month |-> 6, day |-> 15]

InsertArgs(concepts, amounts, tag_names, dates) ==
    [concept : concepts, amount : amounts, tags_given : {TRUE},
     tags : SeqsUpTo(tag_names, MaxTags), income : BOOLEAN, date : dates,
     date_input_format : {<<>>}, iso_of : {NoDate}, answers : {<<>>}, prompts : {0}]
    \cup
    [concept : concepts, amount : amounts, tags_given : {FALSE},
     tags : {<<>>}, income : BOOLEAN, date : dates,
     date_input_format : {<<>>}, iso_of : {NoDate}, answers : {<<>>}, prompts : {0}]

InsertRecordFrom(arg_set, schema_replies) ==
    /\ Alive
    /\ \E a \in arg_set :
       \E schema_reply \in
              (IF IssuesFetch(a.tags_given, a.tags, a.date)
               THEN schema_replies ELSE {NoReply}) :
       \E insert_reply \in
              (IF IssuesInsertion(a.tags_given, a.tags, a.date, schema_reply)
               THEN InsertReplies ELSE {NoReply}) :
          LET done == insert_record(a.concept, a.amount, a.tags_given, a.tags,
                                    a.income, a.date, Today, schema_reply,
                                    insert_reply)
          IN  /\ args' = a
              /\ out' = done.out
              /\ tags_cache' = done.tags_cache
              /\ calls' = done.calls
              /\ schema_fetch' =
                    IF /\ IssuesFetch(a.tags_given, a.tags, a.date)
                       /\ ~Failed(get_tags(schema_reply).out)
                    THEN Done(get_tags(schema_reply).out.ret)
                    ELSE schema_fetch
    /\ op' = "insert_record"
    /\ cache_before' = tags_cache
    /\ UNCHANGED <<settings, raises, settings_file>>

InsertRecordWith(arg_set) == InsertRecordFrom(arg_set, SchemaReplies)

MyConcept == <<"M", "y", " ", "C", "o", "n", "c", "e", "p", "t">>

GoodDate == <<"1", "2", "/", "1", "/", "2", "0", "1", "9">>

BadDate == <<"4", "0", "/", "2", "/", "2", "0", "2", "0">>

(* an expense, its tags pairwise different *)
LeanArgs ==
    {a \in InsertArgs({MyConcept}, {1200}, {Tag1, Tag3}, {<<>>, BadDate}) :
        /\ ~a.income
        /\ \A i, j \in 1..Len(a.tags) : i # j => a.tags[i] # a.tags[j]}

RichArgs ==
    InsertArgs({MyConcept}, {1200, -7}, {Tag1, Tag2, Tag3},
               {<<>>, GoodDate, BadDate})

InsertRecord == InsertRecordWith(LeanArgs)

Next == GetTags \/ ClearTagsCache \/ InsertRecord \/ GetCount

Spec == Init /\ [][Next]_vars

(***************************************************************************)
(* One insert_record, over the richer arguments, on a fresh controller or  *)
(* after one get_tags.                                                     *)
(***************************************************************************)
GetTagsFirst == op = "__init__" /\ GetTags

InsertRecordOnce == op \in {"__init__", "get_tags"} /\ InsertRecordWith(RichArgs)

NextInsert == GetTagsFirst \/ InsertRecordOnce

SpecInsert == Init /\ [][NextInsert]_vars

(***************************************************************************)
(* One get_count, over the richer pages, on a fresh controller.            *)
(***************************************************************************)
GetCountOnce == op = "__init__" /\ GetCountWith(RichCountCases)

NextCount == GetCountOnce

SpecCount == Init /\ [][NextCount]_vars

(***************************************************************************)
(* A controller constructed with a settings dictionary that lacks one key, *)
(* or with the default one, and then one get_tags, insert_record or        *)
(* get_count on it.                                                        *)
(***************************************************************************)
InitConfig == InitWith(IncompleteSettings \cup {default_settings})

InsertRecordFirst == op = "__init__" /\ InsertRecordWith(LeanArgs)

GetCountFirst == op = "__init__" /\ GetCountWith(LeanCountCases)

NextConfig == GetTagsFirst \/ InsertRecordFirst \/ GetCountFirst

SpecConfig == InitConfig /\ [][NextConfig]_vars

(***************************************************************************)
(* The script started without a controller: _read_settings on a settings   *)
(* file that is missing, malformed, complete or lacking a key, and then    *)
(* the controller the main block constructs with the settings it returned. *)
(***************************************************************************)
MaxAnswers == 3

Answers == {<<"Y">>, <<"y">>, <<"N">>, <<"n">>, <<>>, <<"x">>, <<"y", "e", "s">>}

(* the answers typed are those _choose_option reads: it prompts again      *)
(* after every answer but the last                                         *)
Read(answers) ==
    /\ answers # <<>>
    /\ \A i \in 1..Len(answers) : Accepted(answers[i], YesNo) <=> i = Len(answers)

AnswerCases == {a \in NonEmptySeqsUpTo(Answers, MaxAnswers) : Read(a)}

Files ==
    {NoFile, Malformed, FileOf(default_settings), FileOf(renamed_settings)}
    \cup {FileOf(s) : s \in IncompleteSettings}

TypedIds == {<<"M", "Y", "_", "D", "B", "_", "I", "D">>, <<>>}

TypedKeys == {<<"K", "E", "Y">>, <<>>}

InitSettings ==
    /\ settings = <<>>
    /\ raises = FALSE
    /\ tags_cache = <<>>
    /\ op = "main"
    /\ args = NoArgs
    /\ out = Return(None)
    /\ calls = <<>>
    /\ cache_before = <<>>
    /\ schema_fetch = NoFetch
    /\ settings_file \in Files

ReadSettings ==
    /\ op = "main"
    /\ \E answers \in (IF settings_file.status = "missing" THEN AnswerCases ELSE {<<>>}) :
       \E database_id \in
              (IF settings_file.status = "missing" /\ IsYes(choose_option(answers, YesNo))
               THEN TypedIds ELSE {<<>>}) :
       \E api_key \in
              (IF settings_file.status = "missing" /\ IsYes(choose_option(answers, YesNo))
               THEN TypedKeys ELSE {<<>>}) :
          LET read == read_settings(settings_file, answers, database_id, api_key)
          IN  /\ out' = read.out
              /\ settings_file' = read.settings_file
              /\ args' = [NoArgs EXCEPT !.answers = answers, !.prompts = read.prompts]
    /\ op' = "_read_settings"
    /\ UNCHANGED <<settings, raises, tags_cache, calls, cache_before, schema_fetch>>

(* NBC = NBudgetController(_read_settings(), raises=False) *)
Construct ==
    /\ op = "_read_settings"
    /\ out.kind = "return"
    /\ settings' = out.ret
    /\ raises' = FALSE
    /\ tags_cache' = <<>>
    /\ op' = "__init__"
    /\ out' = init(out.ret)
    /\ UNCHANGED <<args, calls, cache_before, schema_fetch, settings_file>>

NextSettings == ReadSettings \/ Construct

SpecSettings == InitSettings /\ [][NextSettings]_vars

(***************************************************************************)
(* One insert_record with a date string, on a fresh controller or after    *)
(* one get_tags, under the default date format or one without a month.     *)
(***************************************************************************)
no_month_settings == [default_settings EXCEPT !.date_input_format = <<"Y", "/", "D">>]

ShortDate == <<"1", "2", "/", "1">>

DatedArgs == InsertArgs({MyConcept}, {1200}, {Tag1, Tag3}, {GoodDate, BadDate, ShortDate})

InitDated == InitWith({default_settings, no_month_settings})

InsertRecordDated == op \in {"__init__", "get_tags"} /\ InsertRecordWith(DatedArgs)

NextDated == GetTagsFirst \/ InsertRecordDated

SpecDated == InitDated /\ [][NextDated]_vars

(***************************************************************************)
(* One insert_record of an expense whose concept and tags hold quotes and  *)
(* backslashes, on a fresh controller or after one get_tags, against a     *)
(* database whose tag options hold a single and a double quote.            *)
(***************************************************************************)
MaxConcept == 2

ConceptChars == {"a", Apostrophe, Quote, Backslash}

AposTag == <<"K", "i", "d", "'", "s">>

QuoteTag == <<"6", "\"">>

QuotedSchemaReplies ==
    {OkReply(Schema(<<Column(<<"T", "a", "g", "s">>, <<MultiSelect>>, <<AposTag, QuoteTag>>)>>)),
     HttpFail(503, "text")}

QuotedArgs ==
    {a \in InsertArgs(SeqsUpTo(ConceptChars, MaxConcept), {1200}, {AposTag, QuoteTag},
                      {GoodDate}) : ~a.income}

InitEncode == InitWith({default_settings})

GetTagsQuoted == op = "__init__" /\ GetTagsFrom(QuotedSchemaReplies)

InsertRecordQuoted ==
    op \in {"__init__", "get_tags"} /\ InsertRecordFrom(QuotedArgs, QuotedSchemaReplies)

NextEncode == GetTagsQuoted \/ InsertRecordQuoted

SpecEncode == InitEncode /\ [][NextEncode]_vars

(***************************************************************************)
(* A call of _format_date on a fresh controller.  The inputs are of two    *)
(* families: the empty date and every date of up to MaxDateFields fields   *)
(* against every format of up to MaxFmtTokens tokens, and every            *)
(* three-field date over a richer set of field values against the six      *)
(* orders of D, M and Y.                                                   *)
(***************************************************************************)
FmtTokens == {<<"D">>, <<"M">>, <<"Y">>, <<"d">>}

ShapeFields == {<<"2">>, <<"1", "9", "9", "6">>}

ValueFields ==
    {<<"1">>,
     <<"0", "2">>,
     <<"1", "2">>,
     <<"1", "3">>,
     <<"2", "9">>,
     <<"3", "0">>,
     <<"3", "1">>,
     <<"0">>,
     <<"1", "9", "0", "0">>,
     <<"1", "9", "9", "6">>,
     <<"2", "0", "0", "0">>,
     <<"1", "0", "0", "0", "0">>,
     <<"2", "1", "4", "7", "4", "8", "3", "6", "4", "7">>,
     <<"2", "1", "4", "7", "4", "8", "3", "6", "4", "8">>,
     <<"-", "5">>,
     <<"x">>}

JoinAll(S) == {Join(q, <<Slash>>) : q \in S}

Formats == JoinAll(NonEmptySeqsUpTo(FmtTokens, MaxFmtTokens))

ShapeDates == JoinAll(NonEmptySeqsUpTo(ShapeFields, MaxDateFields)) \cup {<<>>}

PermFormats ==
    JoinAll({q \in [1..3 -> {<<"D">>, <<"M">>, <<"Y">>}] :
                 \A i, j \in 1..3 : i # j => q[i] # q[j]})

ValueDates == JoinAll([1..3 -> ValueFields])

DateCases == (ShapeDates \X Formats) \cup (ValueDates \X PermFormats)

FormatDateCall ==
    /\ op = "__init__"
    /\ \E c \in DateCases :
          /\ args' = [NoArgs EXCEPT !.date = c[1], !.date_input_format = c[2]]
          /\ out' = format_date(c[1], c[2])
    /\ op' = "_format_date"
    /\ calls' = <<>>
    /\ UNCHANGED <<settings, raises, tags_cache, cache_before, schema_fetch, settings_file>>

RECURSIVE Replace(_, _, _)
Replace(s, old, new) ==
    IF s = <<>> THEN <<>>
    ELSE <<IF s[1] = old THEN new ELSE s[1]>> \o Replace(Tail(s), old, new)

(* _format_date given the isoformat() of the date it returned, as written  *)
(* or with another delimiter, and a Y, M, D format with either delimiter.  *)
FormatDateIso ==
    /\ Alive
    /\ op = "_format_date"
    /\ out.kind = "return"
    /\ args.iso_of = NoDate
    /\ \E dsep, fsep \in {"-", Slash} :
          LET date == Replace(isoformat(out.ret), "-", dsep)
              fmt == <<"Y", fsep, "M", fsep, "D">>
          IN  /\ args' = [NoArgs EXCEPT !.date = date, !.date_input_format = fmt,
                                        !.iso_of = out.ret]
              /\ out' = format_date(date, fmt)
    /\ op' = "_format_date"
    /\ calls' = <<>>
    /\ UNCHANGED <<settings, raises, tags_cache, cache_before, schema_fetch, settings_file>>

InitDate == Init /\ settings = default_settings

NextDate == FormatDateCall \/ FormatDateIso

SpecDate == InitDate /\ [][NextDate]_vars

(***************************************************************************)
(* Properties of _format_date (SpecDate).                                  *)
(***************************************************************************)
IsFormatDate == op = "_format_date"

HasToken(tokens, t) == \E i \in 1..Len(tokens) : tokens[i] = <<t>>

HasAllTokens(tokens) ==
    HasToken(tokens, "D") /\ HasToken(tokens, "M") /\ HasToken(tokens, "Y")

(* the one-based position of the first token equal to t *)
FirstPos(tokens, t) ==
    CHOOSE i \in 1..Len(tokens) :
        tokens[i] = <<t>> /\ \A j \in 1..(i - 1) : tokens[j] # <<t>>

Max3(a, b, c) ==
    IF a >= b /\ a >= c THEN a ELSE IF b >= c THEN b ELSE c

(* the largest of the positions of the first D, M and Y *)
MaxPos(tokens) ==
    Max3(FirstPos(tokens, "D"), FirstPos(tokens, "M"), FirstPos(tokens, "Y"))

Reported(exception) == out.kind \in {"raise", "exit"} /\ out.exc = exception

(* a field that reads as a number of 1 .. 9999 *)
SmallNumber(f) ==
    /\ Len(f) >= 1
    /\ \A i \in 1..Len(f) : IsDigit(f[i])
    /\ Len(StripZeros(f)) <= 4
    /\ DigitsVal(f, 0) >= 1

(* the three fields form a calendar date *)
CalendarDate(y, m, d) ==
    /\ SmallNumber(y) /\ SmallNumber(m) /\ SmallNumber(d)
    /\ LET yv == DigitsVal(y, 0)
           mv == DigitsVal(m, 0)
       IN  /\ mv <= 12
           /\ DigitsVal(d, 0) <=
                 (IF mv = 2
                  THEN (IF yv % 4 = 0 /\ (yv % 100 # 0 \/ yv % 400 = 0)
                        THEN 29 ELSE 28)
                  ELSE IF mv \in {4, 6, 9, 11} THEN 30 ELSE 31)

(* C4: with D, M and Y among the format's tokens and enough fields in the  *)
(* date, the call reads day, month and year from the fields at the first   *)
(* occurrence of D, M and Y: its outcome is that of the same three fields  *)
(* given in the order D/M/Y, and a returned date has those fields' values. *)
C4_FirstOccurrenceDecides ==
    IsFormatDate =>
        LET tokens == Split(args.date_input_format, Slash)
            fields == Split(args.date, Slash)
        IN  (HasAllTokens(tokens) /\ MaxPos(tokens) <= Len(fields)) =>
                LET fD == fields[FirstPos(tokens, "D")]
                    fM == fields[FirstPos(tokens, "M")]
                    fY == fields[FirstPos(tokens, "Y")]
                    canon == format_date(Join(<<fD, fM, fY>>, <<Slash>>), <<"D", "/", "M", "/", "Y">>)
                    calendar == CalendarDate(fY, fM, fD)
                IN  /\ out.kind = canon.kind
                    /\ out.exc = canon.exc
                    /\ out.ret = canon.ret
                    /\ ~Reported("InvalidDateFormat")
                    /\ ~Reported("InvalidDate")
                    /\ out.kind = "return" =>
                          /\ calendar
                          /\ out.ret = [year |-> DigitsVal(fY, 0),
                                        month |-> DigitsVal(fM, 0),
                                        day |-> DigitsVal(fD, 0)]
                    /\ calendar => out.kind = "return"

(* a date is returned through a four-token format led by a token that is   *)
(* none of D, M, Y, year and day differing                                 *)
C4_Witness ==
    /\ IsFormatDate
    /\ out.kind = "return"
    /\ out.ret.year # out.ret.day
    /\ LET tokens == Split(args.date_input_format, Slash)
       IN  /\ Len(tokens) = 4
           /\ tokens[1] = <<"d">>
           /\ FirstPos(tokens, "Y") < FirstPos(tokens, "D")

(* C5: a format lacking any of D, M, Y makes the call fail with            *)
(* InvalidDateFormat, whatever the date string.                            *)
C5_MissingTokenIsInvalidDateFormat ==
    (IsFormatDate /\ ~HasAllTokens(Split(args.date_input_format, Slash))) =>
        Reported("InvalidDateFormat")

(* C6: with D, M and Y among the format's tokens and fewer fields in the   *)
(* date than the largest index demands, the call fails with InvalidDate.   *)
C6_TooFewFieldsIsInvalidDate ==
    IsFormatDate =>
        LET tokens == Split(args.date_input_format, Slash)
        IN  (/\ HasAllTokens(tokens)
             /\ Len(Split(args.date, Slash)) < MaxPos(tokens)) =>
                Reported("InvalidDate")

C6_Witness ==
    /\ IsFormatDate
    /\ Reported("InvalidDate")
    /\ LET tokens == Split(args.date_input_format, Slash)
       IN  /\ HasAllTokens(tokens)
           /\ MaxPos(tokens) = 4
           /\ Len(Split(args.date, Slash)) = 3

(* C7: with a valid format and enough fields, the call fails with          *)
(* InvalidDateRange exactly when the three fields do not form a calendar   *)
(* date, and returns the date otherwise.                                   *)
C7_InvalidDateRangeIffNotCalendarDate ==
    IsFormatDate =>
        LET tokens == Split(args.date_input_format, Slash)
            fields == Split(args.date, Slash)
        IN  (HasAllTokens(tokens) /\ MaxPos(tokens) <= Len(fields)) =>
                LET calendar == CalendarDate(fields[FirstPos(tokens, "Y")],
                                             fields[FirstPos(tokens, "M")],
                                             fields[FirstPos(tokens, "D")])
                IN  /\ Reported("InvalidDateRange") <=> ~calendar
                    /\ calendar => out.kind = "return"

IsoCall == IsFormatDate /\ args.iso_of # NoDate

(* C8 as stated: the ISO string of a returned date, resolved through       *)
(* Y, M, D with the ISO string's own delimiter, yields the same date.      *)
C8_IsoRoundTripOwnDelimiter ==
    (/\ IsoCall
     /\ args.date = isoformat(args.iso_of)
     /\ args.date_input_format = <<"Y", "-", "M", "-", "D">>) =>
        out = Return(args.iso_of)

(* C8 as amended: the ISO string resolves to the same date only with its   *)
(* "-" replaced by "/", through Y/M/D; as written it fails through Y-M-D   *)
(* with InvalidDateFormat and through Y/M/D with InvalidDate.              *)
C8_IsoRoundTripWithSlash ==
    IsoCall =>
        /\ (/\ args.date = Replace(isoformat(args.iso_of), "-", Slash)
            /\ args.date_input_format = <<"Y", "/", "M", "/", "D">>) => out = Return(args.iso_of)
        /\ (/\ args.date = isoformat(args.iso_of)
            /\ args.date_input_format = <<"Y", "-", "M", "-", "D">>) =>
               Reported("InvalidDateFormat")
        /\ (/\ args.date = isoformat(args.iso_of)
            /\ args.date_input_format = <<"Y", "/", "M", "/", "D">>) => Reported("InvalidDate")

(* a date with a one-digit month is returned again from its ISO string     *)
(* with slashes                                                            *)
C8_Witness ==
    /\ IsoCall
    /\ args.iso_of.month < 10
    /\ args.iso_of.year = 1996
    /\ args.date = Replace(isoformat(args.iso_of), "-", Slash)
    /\ args.date_input_format = <<"Y", "/", "M", "/", "D">>
    /\ out.kind = "return"

(***************************************************************************)
(* Properties of insert_record (SpecInsert).                               *)
(***************************************************************************)
IsInsert == op = "insert_record"

(* the call issued the insertion request: it is the last request *)
Inserted == IsInsert /\ calls # <<>> /\ calls[Len(calls)].url = "page_insertion_query"

SentProperties == calls[Len(calls)].data.properties

EntriesWithKey(key) == {i \in 1..Len(SentProperties) : SentProperties[i].key = key}

EntryAt(key) == SentProperties[CHOOSE i \in EntriesWithKey(key) : TRUE]

HasTags == args.tags_given /\ args.tags # <<>>

(* C1: the payload sent has, under settings['type_name'], INCOME when      *)
(* income is true and EXPENSE otherwise, and under settings['amount_name'] *)
(* the amount as given when income is true and its additive inverse        *)
(* otherwise.                                                              *)
C1_TypeAndSignedAmount ==
    Inserted =>
        /\ Cardinality(EntriesWithKey(settings.type_name)) = 1
        /\ Cardinality(EntriesWithKey(settings.amount_name)) = 1
        /\ EntryAt(settings.type_name).kind = "select"
        /\ EntryAt(settings.type_name).value = (IF args.income THEN "INCOME" ELSE "EXPENSE")
        /\ EntryAt(settings.amount_name).kind = "number"
        /\ args.income => EntryAt(settings.amount_name).value = args.amount
        /\ ~args.income => EntryAt(settings.amount_name).value + args.amount = 0

(* an expense of a negative amount is sent under the renamed columns *)
C1_Witness ==
    /\ Inserted
    /\ settings = renamed_settings
    /\ ~args.income
    /\ args.amount < 0
    /\ EntryAt(settings.amount_name).value > 0

(* C2: the payload sent has no tags entry when tags is empty or not given, *)
(* and otherwise has, under settings['tags_name'], a multi_select list of  *)
(* exactly the given tags in the given order.                              *)
C2_TagsKeyOnlyWithTags ==
    Inserted =>
        /\ ~HasTags =>
              /\ EntriesWithKey(settings.tags_name) = {}
              /\ \A i \in 1..Len(SentProperties) : SentProperties[i].kind # "multi_select"
        /\ HasTags =>
              /\ Cardinality(EntriesWithKey(settings.tags_name)) = 1
              /\ EntryAt(settings.tags_name).kind = "multi_select"
              /\ Len(EntryAt(settings.tags_name).value) = Len(args.tags)
              /\ \A i \in 1..Len(args.tags) :
                    EntryAt(settings.tags_name).value[i].name = args.tags[i]

(* two tags given in the order opposite to the one the remote lists, on an *)
(* empty cache: fetched, validated and sent in the given order             *)
C2_Witness ==
    /\ Inserted
    /\ Len(calls) = 2
    /\ args.tags = <<Tag2, Tag1>>
    /\ tags_cache = <<Tag1, Tag2>>
    /\ EntryAt(settings.tags_name).value = <<[name |-> Tag2], [name |-> Tag1]>>

(* the date argument is empty or resolves *)
DateResolves ==
    args.date # <<>> => format_date(args.date, settings.date_input_format).kind = "return"

Fetched == calls # <<>> /\ calls[1].url = "database_query_url"

(* the schema reply is a success whose configured tag column is a          *)
(* multi_select column                                                     *)
FetchSucceeded ==
    /\ Fetched
    /\ calls[1].reply.status = "ok"
    /\ calls[1].reply.json.has_properties
    /\ \E i \in 1..Len(calls[1].reply.json.properties) :
          /\ calls[1].reply.json.properties[i].name = settings.tags_name
          /\ MultiSelect \in Range(calls[1].reply.json.properties[i].keys)

FetchedOptions ==
    LET column == CHOOSE c \in Range(calls[1].reply.json.properties) :
                      c.name = settings.tags_name
    IN  [i \in 1..Len(column.options) |-> column.options[i].name]

(* the options the tags are validated against: the cache, fetched first    *)
(* when it was empty                                                       *)
ValidOptions == IF cache_before = <<>> THEN FetchedOptions ELSE cache_before

InvalidPositions == {i \in 1..Len(args.tags) : args.tags[i] \notin Range(ValidOptions)}

(* C3: insert_record with tags of which one is not among the valid options *)
(* (the cache, fetched first when the cache is empty), its date resolving, *)
(* fails with InvalidTag naming the first such tag and listing all valid   *)
(* options, and issues no insertion request.                               *)
C3_InvalidTagNamesFirstBadTag ==
    (/\ IsInsert
     /\ HasTags
     /\ DateResolves
     /\ cache_before = <<>> => FetchSucceeded
     /\ InvalidPositions # {}) =>
        /\ Reported("InvalidTag")
        /\ out.msg[2] = args.tags[CHOOSE i \in InvalidPositions :
                                     \A j \in InvalidPositions : i <= j]
        /\ out.msg[4] = Join(ValidOptions, CommaSpace)
        /\ \A i \in 1..Len(calls) : calls[i].url # "page_insertion_query"
        /\ cache_before # <<>> => calls = <<>>
        /\ cache_before = <<>> => Len(calls) = 1

(* two different bad tags against options fetched on an empty cache *)
C3_Witness ==
    /\ IsInsert
    /\ HasTags
    /\ cache_before = <<>>
    /\ FetchSucceeded
    /\ ValidOptions # <<>>
    /\ Cardinality(InvalidPositions) = 2
    /\ args.tags[1] # args.tags[2]
    /\ Reported("InvalidTag")

(***************************************************************************)
(* Properties of get_tags (Spec).                                          *)
(***************************************************************************)
IsGetTags == op = "get_tags"

ReplyColumns == calls[1].reply.json.properties

GotColumns == IsGetTags /\ calls[1].reply.status = "ok" /\ calls[1].reply.json.has_properties

TagColumnPresent == \E i \in 1..Len(ReplyColumns) : ReplyColumns[i].name = settings.tags_name

(* C9: when the schema has the configured tag column and it is a           *)
(* multi_select column, get_tags returns its option names in the remote's  *)
(* order and tags_cache becomes that list, whatever it held before.        *)
C9_GetTagsReturnsAndCachesOptions ==
    (GotColumns /\ FetchSucceeded) =>
        /\ out.kind = "return"
        /\ out.ret = FetchedOptions
        /\ tags_cache = FetchedOptions

(* a cache of two tags is replaced by the same tags in the other order *)
C9_Witness ==
    /\ GotColumns
    /\ FetchSucceeded
    /\ cache_before = <<Tag1, Tag2>>
    /\ tags_cache = <<Tag2, Tag1>>
    /\ out.ret = <<Tag2, Tag1>>

(* the names of the multi_select columns of the reply, in its order *)
MultiSelectColumnNames ==
    LET ms == SelectSeq(ReplyColumns, LAMBDA c : MultiSelect \in Range(c.keys))
    IN  [i \in 1..Len(ms) |-> ms[i].name]

(* C10: when the configured tag column is absent from the columns,         *)
(* get_tags fails with APIParsingError: naming every multi_select column   *)
(* and only those when there is one or more, stating that no multi_select  *)
(* column was found when there is none.                                    *)
C10_AbsentTagColumnMessage ==
    (GotColumns /\ ~TagColumnPresent) =>
        /\ Reported("APIParsingError")
        /\ tags_cache = cache_before
        /\ MultiSelectColumnNames # <<>> =>
              /\ Len(out.msg) = 5
              /\ out.msg[2] = settings.tags_name
              /\ out.msg[4] = Join(MultiSelectColumnNames, CommaSpace)
        /\ MultiSelectColumnNames = <<>> =>
              out.msg = <<"No multi_select type column found in Notion database.">>

(* a reply with a number column and two multi_select columns, none of the  *)
(* configured name                                                         *)
C10_Witness ==
    /\ GotColumns
    /\ ~TagColumnPresent
    /\ Len(ReplyColumns) = 3
    /\ Len(MultiSelectColumnNames) = 2
    /\ Reported("APIParsingError")

(* the column of the reply that has the configured tag-column name *)
TagColumn == CHOOSE c \in Range(ReplyColumns) : c.name = settings.tags_name

(* C11: when the configured tag column is among the columns and is not a   *)
(* multi_select column, get_tags fails with APIParsingError and the        *)
(* message names the kind the column has.                                  *)
C11_WrongKindNamesActualKind ==
    (GotColumns /\ TagColumnPresent /\ MultiSelect \notin Range(TagColumn.keys)) =>
        /\ Reported("APIParsingError")
        /\ out.msg = <<"Type of the ", settings.tags_name, " column is: \"",
                       TagColumn.keys[1], "\". Must be \"multi_select\"">>

(***************************************************************************)
(* Properties of _api_call, on the last request of the last operation.     *)
(***************************************************************************)
Called == calls # <<>>

LastReply == calls[Len(calls)].reply

(* the request failed: urlopen raised *)
CallFailed == Called /\ LastReply.status \in {"HTTPError", "URLError"}

(* the failure's body is a JSON object with code and message *)
HasApiBody == LastReply.status = "HTTPError" /\ LastReply.body = "api"

(* C12: a request that fails with a body that is a JSON object with code   *)
(* and message ends the operation with APIError carrying the two values,   *)
(* whatever the HTTP status, 403 included.                                 *)
C12_ApiBodyIsAPIError ==
    (CallFailed /\ HasApiBody) =>
        /\ Reported("APIError")
        /\ out.msg = <<ApiCode, " -> ", ApiMessage>>

(* status 403 with the API's error body *)
C12_Witness ==
    /\ CallFailed
    /\ HasApiBody
    /\ LastReply.code = 403
    /\ Reported("APIError")

(* C13: a request that fails without a JSON body of code and message ends  *)
(* the operation with HTTPError: with the hint on the client's identity    *)
(* when the status is 403, with the status alone otherwise.                *)
C13_OtherFailureIsHTTPError ==
    (CallFailed /\ ~HasApiBody) =>
        /\ Reported("HTTPError")
        /\ (LastReply.status = "HTTPError" /\ LastReply.code = 403) =>
              out.msg = <<403, " -> Check your UA if you have modified the script">>
        /\ (LastReply.status = "HTTPError" /\ LastReply.code # 403) =>
              out.msg = <<LastReply.code>>

(***************************************************************************)
(* Properties of get_count (SpecCount).                                    *)
(***************************************************************************)
IsGetCount == op = "get_count"

AllPagesOk == \A i \in 1..Len(calls) : calls[i].reply.status = "ok"

(* the cells of a row that hold the configured amount column's number key *)
AmountCells(r) ==
    {i \in 1..Len(r.properties) :
        r.properties[i].name = settings.amount_name /\ r.properties[i].has_number}

(* what a row adds to the balance: its amount when that is a number, zero  *)
(* when it has no amount or one that is no number                          *)
Contribution(r) ==
    IF r.has_properties /\ AmountCells(r) # {}
    THEN LET number == r.properties[CHOOSE i \in AmountCells(r) : TRUE].number
         IN  IF number.type = "int" THEN number.val ELSE 0
    ELSE 0

(* a row whose amount is there and is no number *)
OddAmount(r) ==
    /\ r.has_properties
    /\ \E i \in AmountCells(r) : r.properties[i].number.type # "int"

RECURSIVE PageTotal(_)
PageTotal(results) ==
    IF results = <<>> THEN 0
    ELSE Contribution(results[Len(results)])
         + PageTotal(SubSeq(results, 1, Len(results) - 1))

RECURSIVE TotalOfPages(_)
TotalOfPages(n) ==
    IF n = 0 THEN 0 ELSE PageTotal(calls[n].reply.json.results) + TotalOfPages(n - 1)

NoOddAmount ==
    \A i \in 1..Len(calls) :
        \A k \in 1..Len(calls[i].reply.json.results) :
            ~OddAmount(calls[i].reply.json.results[k])

(* C15: with every page answered and every amount a number or absent,     *)
(* get_count returns the sum of the amount column over the rows of every   *)
(* page; each request asks for PageSize rows, the first without a start    *)
(* cursor and each later one with the next_cursor of the reply before it,  *)
(* and the last request is the first whose reply has a None or empty       *)
(* next_cursor.                                                            *)
C15_CountSumsEveryPage ==
    (IsGetCount /\ AllPagesOk /\ NoOddAmount) =>
        /\ out.kind = "return"
        /\ out.ret = TotalOfPages(Len(calls))
        /\ Len(calls) >= 1
        /\ \A i \in 1..Len(calls) :
              /\ calls[i].url = "database_contents_query"
              /\ calls[i].data.page_size = 100
        /\ ~calls[1].data.has_start_cursor
        /\ \A i \in 2..Len(calls) :
              /\ calls[i].data.has_start_cursor
              /\ calls[i].data.start_cursor = calls[i - 1].reply.json.next_cursor
        /\ \A i \in 1..(Len(calls) - 1) :
              calls[i].reply.json.next_cursor \notin {None, ""}
        /\ calls[Len(calls)].reply.json.next_cursor \in {None, ""}

(* three pages under two different cursors, with a balance that is not 0 *)
C15_Witness ==
    /\ IsGetCount
    /\ AllPagesOk
    /\ NoOddAmount
    /\ Len(calls) = 3
    /\ calls[2].data.start_cursor # calls[3].data.start_cursor
    /\ calls[1].reply.json.results # <<>>
    /\ calls[3].reply.json.results # <<>>
    /\ out.kind = "return"
    /\ out.ret = 2

(* C16: with every page answered, a row whose amount is absent or is no    *)
(* number adds zero and get_count still returns the sum of the others.     *)
C16_OddAmountCountsZero ==
    (IsGetCount /\ AllPagesOk) =>
        /\ out.kind = "return"
        /\ out.ret = TotalOfPages(Len(calls))

(***************************************************************************)
(* Properties of _wrap_error, over every operation (Spec).                 *)
(***************************************************************************)
Classified ==
    {"APIError", "HTTPError", "APIParsingError", "InvalidTag",
     "InvalidDateFormat", "InvalidDate", "InvalidDateRange"}

DateErrors == {"InvalidDateFormat", "InvalidDate", "InvalidDateRange"}

(* the operation ended where the error arose: every request before the     *)
(* last was answered, a remote error is that of the last request, any      *)
(* other error follows no insertion request, a date error follows no       *)
(* request at all, and the cache differs from the one before the call only *)
(* by the schema fetch that succeeded before the error                     *)
EndedAtError ==
    /\ \A i \in 1..(Len(calls) - 1) : calls[i].reply.status = "ok"
    /\ out.exc \in {"APIError", "HTTPError"} => CallFailed
    /\ out.exc \notin {"APIError", "HTTPError"} =>
          \A i \in 1..Len(calls) :
              calls[i].url # "page_insertion_query" /\ calls[i].reply.status = "ok"
    /\ out.exc \in DateErrors => calls = <<>>
    /\ tags_cache # cache_before =>
          /\ IsInsert
          /\ cache_before = <<>>
          /\ Len(calls) = IF out.exc = "InvalidTag" THEN 1 ELSE 2
          /\ FetchSucceeded
          /\ tags_cache = FetchedOptions

(* C14: raises never changes on a controller.  An operation that ends with *)
(* a classified error raises it to the caller when raises is true, and     *)
(* prints it and exits the process when raises is false, in either case    *)
(* at the point of the error; after an exit no operation runs.             *)
C14_ErrorModeFixedAndFinal ==
    /\ [](out.exc \in Classified =>
             /\ out.kind = IF raises THEN "raise" ELSE "exit"
             /\ EndedAtError)
    /\ [](out.kind \in {"raise", "exit"} => out.exc \in Classified)
    /\ [][raises' = raises /\ out.kind # "exit"]_vars

(* with raises false, an insert_record exits on a bad tag after the one    *)
(* schema fetch that filled the cache                                      *)
C14_Witness ==
    /\ ~raises
    /\ IsInsert
    /\ out.kind = "exit"
    /\ out.exc = "InvalidTag"
    /\ Len(calls) = 1
    /\ tags_cache # cache_before

(***************************************************************************)
(* Properties of the cache over sequences of operations (Spec).            *)
(***************************************************************************)
(* C17 as stated: once a schema fetch has succeeded and until              *)
(* clear_tags_cache is called, an insert_record with tags issues no schema *)
(* fetch, whatever options the fetch returned.                             *)
C17_NoFetchAfterAnyFetch ==
    [][(schema_fetch.status = "done" /\ IsInsert' /\ HasTags') => ~Fetched']_vars

(* C17: once a schema fetch has succeeded with one option or more and      *)
(* until clear_tags_cache is called or a later fetch returns no option, an *)
(* insert_record with tags issues no request but the insertion, and the    *)
(* cache stays the list that fetch returned.                               *)
C17_NoFetchAfterFetchOfOptions ==
    /\ []((schema_fetch.status = "done" /\ Alive) => tags_cache = schema_fetch.options)
    /\ [][(/\ schema_fetch.status = "done"
           /\ schema_fetch.options # <<>>
           /\ IsInsert'
           /\ HasTags') =>
              /\ ~Fetched'
              /\ Len(calls') <= 1
              /\ tags_cache' = schema_fetch.options
              /\ schema_fetch' = schema_fetch]_vars

(* an insert_record with tags validated against the options of an earlier  *)
(* operation's fetch, sending the insertion alone                          *)
C17_Witness ==
    /\ schema_fetch.status = "done"
    /\ schema_fetch.options = <<Tag1, Tag2>>
    /\ IsInsert
    /\ HasTags
    /\ cache_before = <<Tag1, Tag2>>
    /\ Len(calls) = 1
    /\ Inserted

(* C18: clear_tags_cache empties the cache whatever it held, returns       *)
(* without a request and changes neither settings nor raises; an           *)
(* insert_record with tags that follows it and gets to validate them (its  *)
(* date absent or resolving) issues the schema fetch as its first request. *)
C18_ClearThenInsertFetches ==
    /\ [](op = "clear_tags_cache" =>
             (tags_cache = <<>> /\ calls = <<>> /\ out = Return(None)))
    /\ [][(op # "clear_tags_cache" /\ op' = "clear_tags_cache") =>
              (settings' = settings /\ raises' = raises)]_vars
    /\ [][(op = "clear_tags_cache" /\ IsInsert' /\ HasTags' /\ DateResolves') =>
              /\ Fetched'
              /\ \A i \in 2..Len(calls') : calls'[i].url # "database_query_url"]_vars

(* after a clear_tags_cache of a cache that held options, an insert_record *)
(* with tags fetched the schema, and no fetch has succeeded since          *)
C18_Witness ==
    /\ schema_fetch.status = "cleared"
    /\ IsInsert
    /\ HasTags
    /\ DateResolves
    /\ Fetched
    /\ cache_before = <<>>
    /\ tags_cache = <<>>

(***************************************************************************)
(* Properties of construction (SpecConfig).                                *)
(***************************************************************************)
Incomplete ==
    \E i \in 1..Len(SETTINGS_KEY_VALIDATION) :
        SETTINGS_KEY_VALIDATION[i] \notin DOMAIN settings

(* C19: a controller given settings that lack one of the nine keys fails   *)
(* at construction: no operation runs on it and no request is issued.      *)
C19_IncompleteSettingsFailAtConstruction ==
    Incomplete => (op = "__init__" /\ out.kind # "return" /\ calls = <<>>)

(***************************************************************************)
(* Properties of the requests of one operation (Spec).                     *)
(***************************************************************************)
Urls == [i \in 1..Len(calls) |-> calls[i].url]

(* C20: within one operation a request follows only requests that were     *)
(* answered; when the last request fails, the operation ends with the      *)
(* error of that request.  insert_record issues nothing, the schema fetch, *)
(* the insertion, or the schema fetch and then the insertion; get_tags     *)
(* issues the schema fetch and nothing else.                               *)
C20_NoRetryNoReorder ==
    /\ \A i \in 1..(Len(calls) - 1) : calls[i].reply.status = "ok"
    /\ CallFailed => (Failed(out) /\ out = api_call(LastReply))
    /\ IsInsert =>
          Urls \in {<<>>, <<"database_query_url">>, <<"page_insertion_query">>,
                    <<"database_query_url", "page_insertion_query">>}
    /\ IsGetTags => Urls = <<"database_query_url">>
    /\ IsGetCount => \A i \in 1..Len(calls) : calls[i].url = "database_contents_query"
    /\ op \in {"__init__", "clear_tags_cache"} => calls = <<>>

(* an insert_record whose schema fetch was answered and whose insertion    *)
(* failed                                                                  *)
C20_Witness ==
    /\ IsInsert
    /\ Len(calls) = 2
    /\ FetchSucceeded
    /\ CallFailed
    /\ Failed(out)

(***************************************************************************)
(* Properties of _read_settings (SpecSettings).                            *)
(***************************************************************************)
(* _read_settings found no file: it prompted *)
PromptedForFile == op = "_read_settings" /\ args.prompts >= 1

LastAnswer == args.answers[Len(args.answers)]

(* C21: when the settings file does not exist, _read_settings prompts      *)
(* until an answer is Y or N in either case; when that answer is a yes it  *)
(* returns the settings the wizard created and wrote, and when it is a no  *)
(* it prints an error and exits.                                           *)
C21_YesRunsWizardNoExits ==
    PromptedForFile =>
        /\ args.prompts = Len(args.answers)
        /\ \A i \in 1..(Len(args.answers) - 1) :
              upper(args.answers[i]) \notin {<<"Y">>, <<"N">>}
        /\ upper(LastAnswer) \in {<<"Y">>, <<"N">>}
        /\ upper(LastAnswer) = <<"Y">> =>
              /\ out.kind = "return"
              /\ settings_file.status = "json"
              /\ out.ret = settings_file.json
        /\ upper(LastAnswer) = <<"N">> =>
              /\ out.kind = "exit"
              /\ settings_file.status = "missing"

(***************************************************************************)
(* Properties of tags_cache over sequences of operations (Spec).           *)
(***************************************************************************)
(* the cache is empty at construction, and afterwards is empty or the      *)
(* option list of the last schema fetch that succeeded                     *)
CacheIsLastFetch ==
    /\ op = "__init__" => tags_cache = <<>>
    /\ schema_fetch.status = "done" => tags_cache = schema_fetch.options
    /\ schema_fetch.status # "done" => tags_cache = <<>>

(* the step is one of the three that may change the cache *)
MayChangeCache ==
    \/ IsGetTags' /\ out'.kind = "return"
    \/ op' = "clear_tags_cache"
    \/ IsInsert' /\ HasTags' /\ tags_cache = <<>> /\ FetchSucceeded'

(* C22 as stated: every operation that fails leaves the cache unchanged.   *)
C22_EveryFailureKeepsCache ==
    [][Failed(out') => tags_cache' = tags_cache]_vars

(* C22: tags_cache is empty at construction and afterwards empty or the    *)
(* option list of the last successful schema fetch.  It changes only by a  *)
(* successful get_tags, by clear_tags_cache, or by an insert_record with   *)
(* tags whose schema fetch on an empty cache succeeded.  get_count,        *)
(* insert_record without tags or on a non-empty cache, and every operation *)
(* that fails without such a fetch leave it unchanged.                     *)
C22_CacheChangesOnlyByFetchOrClear ==
    /\ []CacheIsLastFetch
    /\ [][tags_cache' # tags_cache => MayChangeCache]_vars
    /\ [][(\/ IsGetCount'
           \/ IsInsert' /\ ~HasTags'
           \/ IsInsert' /\ tags_cache # <<>>
           \/ Failed(out') /\ ~(IsInsert' /\ FetchSucceeded')) =>
              tags_cache' = tags_cache]_vars

(* a get_tags that fails with APIParsingError on a cache of two options *)
C22_Witness ==
    /\ IsGetTags
    /\ Reported("APIParsingError")
    /\ cache_before = <<Tag1, Tag2>>
    /\ tags_cache = <<Tag1, Tag2>>
    /\ schema_fetch.status = "done"

(***************************************************************************)
(* Properties of insert_record with a date string (SpecDated).             *)
(***************************************************************************)
(* the date string given does not resolve under the configured format: a   *)
(* token is missing, a field is missing, or the fields are no calendar     *)
(* date                                                                    *)
DateUnresolved ==
    /\ args.date # <<>>
    /\ LET tokens == Split(settings.date_input_format, Slash)
           fields == Split(args.date, Slash)
       IN  \/ ~HasAllTokens(tokens)
           \/ MaxPos(tokens) > Len(fields)
           \/ ~CalendarDate(fields[FirstPos(tokens, "Y")], fields[FirstPos(tokens, "M")],
                            fields[FirstPos(tokens, "D")])

(* C23: insert_record given a date string that does not resolve reports    *)
(* the date error, issues no request and leaves tags_cache as it was,      *)
(* whatever tags it was given and whatever the cache holds.                *)
C23_BadDateBeforeAnythingElse ==
    (IsInsert /\ DateUnresolved) =>
        /\ out.kind = IF raises THEN "raise" ELSE "exit"
        /\ out.exc \in {"InvalidDateFormat", "InvalidDate", "InvalidDateRange"}
        /\ out = format_date(args.date, settings.date_input_format)
        /\ calls = <<>>
        /\ tags_cache = cache_before

(* tags of which one is no option, on an empty cache, with a date that     *)
(* lacks a field                                                           *)
C23_Witness ==
    /\ IsInsert
    /\ DateUnresolved
    /\ HasTags
    /\ Tag3 \in Range(args.tags)
    /\ cache_before = <<>>
    /\ Reported("InvalidDate")
    /\ calls = <<>>

(* a date beyond range, with tags on a filled cache *)
C23_WitnessRange ==
    /\ IsInsert
    /\ DateUnresolved
    /\ HasTags
    /\ cache_before # <<>>
    /\ Reported("InvalidDateRange")

(* a format without a month *)
C23_WitnessFormat ==
    /\ IsInsert
    /\ DateUnresolved
    /\ HasTags
    /\ Reported("InvalidDateFormat")

(***************************************************************************)
(* Properties of the bytes of the insertion request (SpecEncode).  A JSON  *)
(* text is read as its tokens: punctuation, strings with their escapes     *)
(* resolved, and numbers.  Two texts of the same tokens decode alike.      *)
(***************************************************************************)
Punct(c) == [t |-> "punct", v |-> <<c>>]

String(chars) == [t |-> "string", v |-> chars]

NumberToken(chars) == [t |-> "number", v |-> chars]

NoLex == [ok |-> FALSE, tokens |-> <<>>]

(* the character an escape of a JSON string stands for; the escapes \b    *)
(* and \u, which repr never writes over ConceptChars, are left out        *)
Unescaped(c) ==
    CASE c = Quote -> <<Quote>>
      [] c = Backslash -> <<Backslash>>
      [] c = "/" -> <<"/">>
      [] c = "n" -> <<"\n">>
      [] c = "t" -> <<"\t">>
      [] c = "r" -> <<"\r">>
      [] c = "f" -> <<"\f">>
      [] OTHER -> <<>>

NumberChars == Range(Digits) \cup {"-", "."}

(* -? digits ( . digits )? *)
IsJsonNumber(chars) ==
    LET body == IF chars # <<>> /\ chars[1] = "-" THEN Tail(chars) ELSE chars
        dots == {i \in 1..Len(body) : body[i] = "."}
    IN  /\ body # <<>>
        /\ \A i \in 1..Len(body) : body[i] # "-"
        /\ Cardinality(dots) <= 1
        /\ \A i \in dots : 1 < i /\ i < Len(body)
        /\ (Len(body) > 1 /\ body[1] = "0") => body[2] = "."

(* The tokens of a JSON text.  A character is escaped when the one before  *)
(* it is a backslash that is not escaped itself; the quotes that are not   *)
(* escaped open and close the strings in turn; between strings there are   *)
(* only blanks, punctuation and numbers.                                   *)
Lex(text) ==
    LET n == Len(text)
        positions == [j \in 1..n |-> j]
        Escaped[j \in 1..n] ==
            IF j = 1 THEN FALSE ELSE text[j - 1] = Backslash /\ ~Escaped[j - 1]
        delimiters == {j \in 1..n : text[j] = Quote /\ ~Escaped[j]}
        QuotesBefore == [j \in 1..n |-> Cardinality({q \in delimiters : q < j})]
        Inside(j) == j \notin delimiters /\ QuotesBefore[j] % 2 = 1
        Outside(j) == j \notin delimiters /\ QuotesBefore[j] % 2 = 0
        Opens(j) == j \in delimiters /\ QuotesBefore[j] % 2 = 0
        Introduces(j) == text[j] = Backslash /\ ~Escaped[j]
        StartsNumber(j) ==
            Outside(j) /\ text[j] \in NumberChars
                /\ (j = 1 \/ text[j - 1] \notin NumberChars)
        NumberAt(j) ==
            LET end == CHOOSE e \in j..n :
                           /\ \A k \in j..e : text[k] \in NumberChars
                           /\ (e = n \/ text[e + 1] \notin NumberChars)
            IN  SubSeq(text, j, end)
        StringAt(j) ==
            LET close == CHOOSE q \in delimiters : QuotesBefore[q] = QuotesBefore[j] + 1
                Kept(k) == ~Introduces(k)
                kept == SelectSeq(SubSeq(positions, j + 1, close - 1), Kept)
            IN  [m \in 1..Len(kept) |->
                    IF Escaped[kept[m]] THEN Unescaped(text[kept[m]])[1]
                    ELSE text[kept[m]]]
        Starts(j) ==
            \/ Opens(j)
            \/ Outside(j) /\ text[j] \in {"{", "}", "[", "]", ":", ","}
            \/ StartsNumber(j)
        starts == SelectSeq(positions, Starts)
        TokenAt(j) ==
            IF Opens(j) THEN String(StringAt(j))
            ELSE IF StartsNumber(j) THEN NumberToken(NumberAt(j))
            ELSE Punct(text[j])
        well_formed ==
            /\ Cardinality(delimiters) % 2 = 0
            /\ \A j \in 1..n :
                  /\ Outside(j) =>
                        text[j] \in {" ", "{", "}", "[", "]", ":", ","} \cup NumberChars
                  /\ (Inside(j) /\ Introduces(j)) =>
                        j < n /\ Unescaped(text[j + 1]) # <<>>
                  /\ StartsNumber(j) => IsJsonNumber(NumberAt(j))
    IN  IF well_formed
        THEN [ok |-> TRUE, tokens |-> [k \in 1..Len(starts) |-> TokenAt(starts[k])]]
        ELSE NoLex

(* the tokens of the payload that was built *)
ObjectTokens(members) == <<Punct("{")>> \o Join(members, <<Punct(",")>>) \o <<Punct("}")>>

ArrayTokens(items) == <<Punct("[")>> \o Join(items, <<Punct(",")>>) \o <<Punct("]")>>

Member(key, value_tokens) == <<String(key), Punct(":")>> \o value_tokens

ColumnTokens(entry) ==
    CASE entry.kind = "select" ->
            ObjectTokens(<<Member(<<"s", "e", "l", "e", "c", "t">>,
                ObjectTokens(<<Member(<<"n", "a", "m", "e">>, <<String(RecordTypeName(entry.value))>>)>>))>>)
      [] entry.kind = "date" ->
            ObjectTokens(<<Member(<<"d", "a", "t", "e">>,
                ObjectTokens(<<Member(<<"s", "t", "a", "r", "t">>, <<String(entry.value)>>)>>))>>)
      [] entry.kind = "title" ->
            ObjectTokens(<<Member(<<"t", "i", "t", "l", "e">>,
                ArrayTokens(<<ObjectTokens(<<Member(<<"t", "e", "x", "t">>,
                    ObjectTokens(<<Member(<<"c", "o", "n", "t", "e", "n", "t">>, <<String(entry.value)>>)>>))>>)>>))>>)
      [] entry.kind = "number" ->
            ObjectTokens(<<Member(<<"n", "u", "m", "b", "e", "r">>, <<NumberToken(float_repr(entry.value))>>)>>)
      [] entry.kind = "multi_select" ->
            ObjectTokens(<<Member(<<"m", "u", "l", "t", "i", "_", "s", "e", "l", "e", "c", "t">>,
                ArrayTokens([i \in 1..Len(entry.value) |->
                    ObjectTokens(<<Member(<<"n", "a", "m", "e">>, <<String(entry.value[i].name)>>)>>)]))>>)

PayloadTokens(data) ==
    ObjectTokens(<<Member(<<"p", "a", "r", "e", "n", "t">>,
                       ObjectTokens(<<Member(<<"d", "a", "t", "a", "b", "a", "s", "e", "_", "i", "d">>, <<String(data.database_id)>>)>>)),
                   Member(<<"p", "r", "o", "p", "e", "r", "t", "i", "e", "s">>,
                       ObjectTokens([i \in 1..Len(data.properties) |->
                           Member(data.properties[i].key,
                                  ColumnTokens(data.properties[i]))]))>>)

SentBytes == calls[Len(calls)].encoded

SentData == calls[Len(calls)].data

DecodesToPayload ==
    LET read == Lex(SentBytes)
    IN  read.ok /\ read.tokens = PayloadTokens(SentData)

QuoteFree(s) == Apostrophe \notin Range(s) /\ Quote \notin Range(s)

(* C24: the bytes insert_record hands to the remote write are a JSON       *)
(* document which decodes to the payload that was built, whatever the      *)
(* concept and the validated tags, quotes included.                        *)
C24_BytesDecodeToPayload ==
    Inserted => DecodesToPayload

(* with no quote in the concept nor in a tag the bytes do decode to the    *)
(* payload, backslashes included                                           *)
C24_QuoteFreeDecodes ==
    (Inserted /\ QuoteFree(args.concept) /\ \A i \in 1..Len(args.tags) : QuoteFree(args.tags[i]))
        => DecodesToPayload

C24_QuoteFreeWitness ==
    /\ Inserted
    /\ Backslash \in Range(args.concept)
    /\ QuoteFree(args.concept)
    /\ args.tags = <<>>
    /\ DecodesToPayload

(* a validated tag with a quote, sent in bytes that do not decode to it *)
C24_QuotedTagSent ==
    /\ Inserted
    /\ QuoteFree(args.concept)
    /\ args.tags = <<AposTag>>
    /\ ~DecodesToPayload

====
